---- MODULE Spec2Model ----
(***************************************************************************)
(* State-machine model of class MutexValidator (src/MutexValidator.cpp).   *)
(*                                                                         *)
(* A handle (a MutexValidator object) holds three raw pointers Mtx,        *)
(* Counter and IsValid, which the code always assigns together (lines      *)
(* 40-42, 53-55, 86-88) and always deletes together (76-78, 138-140); the  *)
(* model keeps one block id per handle in Mtx and the pointed-to objects   *)
(* in Counter[b], IsValid[b] and the recursive mutex mtxOwner[b] /         *)
(* mtxCount[b].  Every statement of a constructor, of operator= and of the *)
(* destructor that touches shared memory is one step of the calling        *)
(* thread; ++*Counter and --*Counter are a load and a store.               *)
(*                                                                         *)
(* The threads are well-behaved clients of the class: a handle that one    *)
(* thread is constructing, assigning to or destroying is not used by any   *)
(* other thread at the same time, a destroyed handle is not used again,    *)
(* and Unlock is called only by the thread that holds the mutex.           *)
(***************************************************************************)
EXTENDS Integers, FiniteSets, Sequences, TLC

\* Bounds of the model: the MutexValidator objects ever constructed, the
\* blocks ever allocated, the depth to which a thread nests Lock()/TryLock()
\* on one mutex, and the member-function calls of a run.  Two threads run.
MaxHandles == 3
MaxBlocks == 2
MaxHold == 2
MaxCalls == 6

\* Largest value of std::size_t as far as the model can represent it.
SizeMax == 2147483647

Handles == 1..MaxHandles
Blocks == 1..MaxBlocks
Threads == {"t1", "t2"}
NoThread == "none"
NoRet == <<>>

\* The thread that runs main(), and the handles of its two objects.
MainThread == "t1"
mwvp == 1
mwv == 2

VARIABLES
    hState,     \* handle -> "unborn" | "constructing" | "live" | "dead"
    Mtx,        \* handle -> block its Mtx/Counter/IsValid pointers point to (0: nullptr)
    IsOriginal, \* handle -> its IsOriginal member
    alloc,      \* block -> "unalloc" | "live" | "freed"
    Counter,    \* block -> *Counter
    IsValid,    \* block -> *IsValid
    mtxOwner,   \* block -> thread owning the recursive mutex, or NoThread
    mtxCount,   \* block -> recursion depth of the recursive mutex
    pc,         \* thread -> statement it is about to execute, or "idle"
    self,       \* thread -> `this` of the running constructor/operator=/destructor
    other,      \* thread -> `other` of the running copy/assignment, handle of a pending Lock
    tmp,        \* thread -> value loaded by the running ++*Counter / --*Counter
    ret,        \* <<thread, function, handle, value>> if the step just taken was the return
                \* of GetIsValid or TryLock, NoRet otherwise
    frees,      \* block -> number of times the delete statements ran on it
    uaf,        \* blocks some statement accessed after they were freed
    crashed,    \* the process died on an access to freed memory
    calls,      \* number of member functions called so far by free clients
    prog        \* 0 when the clients are free; otherwise the number of the next
                \* member function call of main() (lines 147-161)

vars == <<hState, Mtx, IsOriginal, alloc, Counter, IsValid, mtxOwner, mtxCount,
          pc, self, other, tmp, ret, frees, uaf, crashed, calls, prog>>

handleVars == <<hState, Mtx, IsOriginal>>
blockVars == <<alloc, Counter, IsValid, frees>>
mutexVars == <<mtxOwner, mtxCount>>

Init ==
    /\ hState = [h \in Handles |-> "unborn"]
    /\ Mtx = [h \in Handles |-> 0]
    /\ IsOriginal = [h \in Handles |-> FALSE]
    /\ alloc = [b \in Blocks |-> "unalloc"]
    /\ Counter = [b \in Blocks |-> 0]
    /\ IsValid = [b \in Blocks |-> FALSE]
    /\ mtxOwner = [b \in Blocks |-> NoThread]
    /\ mtxCount = [b \in Blocks |-> 0]
    /\ pc = [t \in Threads |-> "idle"]
    /\ self = [t \in Threads |-> 0]
    /\ other = [t \in Threads |-> 0]
    /\ tmp = [t \in Threads |-> 0]
    /\ ret = NoRet
    /\ frees = [b \in Blocks |-> 0]
    /\ uaf = {}
    /\ crashed = FALSE
    /\ calls = 0
    /\ prog = 0

----------------------------------------------------------------------------
\* Helpers

\* Faulty variant: the increment is lost.
Inc_Lost(c) == c

\* std::size_t arithmetic of ++*Counter and --*Counter.
Inc(c) == IF c = SizeMax THEN 0 ELSE c + 1

Dec(c) == IF c = 0 THEN SizeMax ELSE c - 1

\* Faulty variant: lock() returns although another thread owns the mutex.
CanLock_Always(t, b) == TRUE

\* Faulty variant: the mutex is not recursive.
CanLock_NonRecursive(t, b) == mtxOwner[b] = NoThread

\* std::recursive_mutex::lock returns for thread t: the mutex is free or t owns it.
CanLock(t, b) == mtxOwner[b] \in {NoThread, t}

MtxLock(t, b) ==
    /\ mtxOwner' = [mtxOwner EXCEPT ![b] = t]
    /\ mtxCount' = [mtxCount EXCEPT ![b] = @ + 1]

MtxUnlock(t, b) ==
    /\ mtxCount' = [mtxCount EXCEPT ![b] = IF @ > 0 THEN @ - 1 ELSE 0]
    /\ mtxOwner' = [mtxOwner EXCEPT ![b] = IF mtxCount[b] > 1 THEN @ ELSE NoThread]

\* A statement dereferences a pointer into block b.
Touch(b) == uaf' = IF alloc[b] = "freed" THEN uaf \cup {b} ELSE uaf

\* delete Mtx; delete Counter; delete IsValid;
Delete(b) ==
    /\ alloc' = [alloc EXCEPT ![b] = "freed"]
    /\ frees' = [frees EXCEPT ![b] = @ + 1]

\* Client discipline: no thread is running a constructor, assignment or
\* destructor on handle h.
NotBeingWritten(h) == \A u \in Threads : pc[u] # "idle" => self[u] # h

\* Client discipline: no thread is running any operation that involves handle h.
NotInUse(h) == \A u \in Threads : pc[u] # "idle" => (self[u] # h /\ other[u] # h)

\* Thread t calls a member function.
Call(t) ==
    /\ ~crashed
    /\ pc[t] = "idle"
    /\ IF prog # 0 /\ t = MainThread
       THEN /\ prog' = prog + 1
            /\ UNCHANGED calls
       ELSE /\ calls < MaxCalls
            /\ calls' = calls + 1
            /\ UNCHANGED prog

Enter(t, label) ==
    /\ pc' = [pc EXCEPT ![t] = label]
    /\ ret' = NoRet

At(t, label) == ~crashed /\ pc[t] = label

Goto(t, label) ==
    /\ pc' = [pc EXCEPT ![t] = label]
    /\ ret' = NoRet
    /\ UNCHANGED <<calls, prog>>

Return(t) ==
    /\ pc' = [pc EXCEPT ![t] = "idle"]
    /\ self' = [self EXCEPT ![t] = 0]
    /\ other' = [other EXCEPT ![t] = 0]
    /\ ret' = NoRet
    /\ UNCHANGED <<calls, prog>>

\* The handle and the block the next object is placed in.
NewHandle == CHOOSE h \in Handles : hState[h] = "unborn" /\ \A g \in 1..(h-1) : hState[g] # "unborn"

NewBlock == CHOOSE b \in Blocks : alloc[b] = "unalloc" /\ \A c \in 1..(b-1) : alloc[c] # "unalloc"

----------------------------------------------------------------------------
\* MutexValidator()  (lines 38-45)

DefaultCtor(t) ==
    /\ Call(t)
    /\ \E h \in Handles : hState[h] = "unborn"
    /\ \E b \in Blocks : alloc[b] = "unalloc"
    /\ LET h == NewHandle
           b == NewBlock
       IN /\ hState' = [hState EXCEPT ![h] = "live"]
          /\ Mtx' = [Mtx EXCEPT ![h] = b]
          /\ IsOriginal' = [IsOriginal EXCEPT ![h] = TRUE]
          /\ alloc' = [alloc EXCEPT ![b] = "live"]
          /\ Counter' = [Counter EXCEPT ![b] = 1]
          /\ IsValid' = [IsValid EXCEPT ![b] = TRUE]
    /\ ret' = NoRet
    /\ UNCHANGED <<mutexVars, pc, self, other, tmp, frees, uaf, crashed>>

----------------------------------------------------------------------------
\* MutexValidator(const MutexValidator& other)  (lines 49-61)

CopyCall(t, o) ==
    /\ Call(t)
    /\ hState[o] = "live"
    /\ NotBeingWritten(o)
    /\ \E h \in Handles : hState[h] = "unborn"
    /\ hState' = [hState EXCEPT ![NewHandle] = "constructing"]
    /\ self' = [self EXCEPT ![t] = NewHandle]
    /\ other' = [other EXCEPT ![t] = o]
    /\ Enter(t, "c_lock")
    /\ UNCHANGED <<Mtx, IsOriginal, blockVars, mutexVars, tmp, uaf, crashed>>

\* line 51: other.Mtx->lock();
CopyLock(t) ==
    /\ At(t, "c_lock")
    /\ CanLock(t, Mtx[other[t]])
    /\ MtxLock(t, Mtx[other[t]])
    /\ Touch(Mtx[other[t]])
    /\ Goto(t, "c_link")
    /\ UNCHANGED <<handleVars, blockVars, self, other, tmp, crashed>>

\* lines 53-55: Mtx = other.Mtx; Counter = other.Counter; IsValid = other.IsValid;
CopyLink(t) ==
    /\ At(t, "c_link")
    /\ Mtx' = [Mtx EXCEPT ![self[t]] = Mtx[other[t]]]
    /\ Goto(t, "c_load")
    /\ UNCHANGED <<hState, IsOriginal, blockVars, mutexVars, self, other, tmp, uaf, crashed>>

\* line 57: ++*Counter (the load)
CopyLoad(t) ==
    /\ At(t, "c_load")
    /\ tmp' = [tmp EXCEPT ![t] = Counter[Mtx[self[t]]]]
    /\ Touch(Mtx[self[t]])
    /\ Goto(t, "c_store")
    /\ UNCHANGED <<handleVars, blockVars, mutexVars, self, other, crashed>>

\* line 57: ++*Counter (the store); line 58: IsOriginal = false;
CopyStore(t) ==
    /\ At(t, "c_store")
    /\ Counter' = [Counter EXCEPT ![Mtx[self[t]]] = Inc(tmp[t])]
    /\ IsOriginal' = [IsOriginal EXCEPT ![self[t]] = FALSE]
    /\ tmp' = [tmp EXCEPT ![t] = 0]
    /\ Touch(Mtx[self[t]])
    /\ Goto(t, "c_unlock")
    /\ UNCHANGED <<hState, Mtx, alloc, IsValid, frees, mutexVars, self, other, crashed>>

\* line 60: other.Mtx->unlock(); the constructor returns
CopyUnlock(t) ==
    /\ At(t, "c_unlock")
    /\ MtxUnlock(t, Mtx[other[t]])
    /\ Touch(Mtx[other[t]])
    /\ hState' = [hState EXCEPT ![self[t]] = "live"]
    /\ Return(t)
    /\ UNCHANGED <<Mtx, IsOriginal, blockVars, tmp, crashed>>

----------------------------------------------------------------------------
\* ~MutexValidator()  (lines 127-144)

DtorCall(t, h) ==
    /\ Call(t)
    /\ hState[h] = "live"
    /\ NotInUse(h)
    /\ self' = [self EXCEPT ![t] = h]
    /\ Enter(t, "d_lock")
    /\ UNCHANGED <<handleVars, blockVars, mutexVars, other, tmp, uaf, crashed>>

\* line 129: Mtx->lock();
DtorLock(t) ==
    /\ At(t, "d_lock")
    /\ CanLock(t, Mtx[self[t]])
    /\ MtxLock(t, Mtx[self[t]])
    /\ Touch(Mtx[self[t]])
    /\ Goto(t, "d_flag")
    /\ UNCHANGED <<handleVars, blockVars, self, other, tmp, crashed>>

\* Faulty variant: the destructor never clears the flag.
DtorMustInvalidate_Never(h) == FALSE

\* Faulty variant: the destructor of every handle clears the flag.
DtorMustInvalidate_Always(h) == TRUE

\* line 131: the condition of `if (IsOriginal)`
DtorMustInvalidate(h) == IsOriginal[h]

\* lines 131-132: if (IsOriginal) *IsValid = false;
DtorFlag(t) ==
    /\ At(t, "d_flag")
    /\ IF DtorMustInvalidate(self[t])
       THEN /\ IsValid' = [IsValid EXCEPT ![Mtx[self[t]]] = FALSE]
            /\ Touch(Mtx[self[t]])
       ELSE UNCHANGED <<IsValid, uaf>>
    /\ Goto(t, "d_load")
    /\ UNCHANGED <<handleVars, alloc, Counter, frees, mutexVars, self, other, tmp, crashed>>

\* line 134: --*Counter (the load)
DtorLoad(t) ==
    /\ At(t, "d_load")
    /\ tmp' = [tmp EXCEPT ![t] = Counter[Mtx[self[t]]]]
    /\ Touch(Mtx[self[t]])
    /\ Goto(t, "d_store")
    /\ UNCHANGED <<handleVars, blockVars, mutexVars, self, other, crashed>>

\* line 134: --*Counter (the store)
DtorStore(t) ==
    /\ At(t, "d_store")
    /\ Counter' = [Counter EXCEPT ![Mtx[self[t]]] = Dec(tmp[t])]
    /\ tmp' = [tmp EXCEPT ![t] = 0]
    /\ Touch(Mtx[self[t]])
    /\ Goto(t, "d_test")
    /\ UNCHANGED <<handleVars, alloc, IsValid, frees, mutexVars, self, other, crashed>>

\* Faulty variant: the destructor frees the block while one handle is still counted.
DtorMustFree_OffByOne(c) == c <= 1

\* line 136: the condition of `if (*Counter == 0)`
DtorMustFree(c) == c = 0

\* lines 136-141: if (*Counter == 0) { delete Mtx; delete Counter; delete IsValid; }
DtorTest(t) ==
    /\ At(t, "d_test")
    /\ Touch(Mtx[self[t]])
    /\ IF DtorMustFree(Counter[Mtx[self[t]]])
       THEN Delete(Mtx[self[t]])
       ELSE UNCHANGED <<alloc, frees>>
    /\ Goto(t, "d_unlock")
    /\ UNCHANGED <<handleVars, Counter, IsValid, mutexVars, self, other, tmp, crashed>>

\* line 143: Mtx->unlock(); the destructor returns and the handle is gone
DtorUnlock(t) ==
    /\ At(t, "d_unlock")
    /\ MtxUnlock(t, Mtx[self[t]])
    /\ Touch(Mtx[self[t]])
    /\ hState' = [hState EXCEPT ![self[t]] = "dead"]
    /\ Return(t)
    /\ UNCHANGED <<Mtx, IsOriginal, blockVars, tmp, crashed>>

----------------------------------------------------------------------------
\* MutexValidator& operator=(const MutexValidator& other)  (lines 65-97)

AssignCall(t, h, o) ==
    /\ Call(t)
    /\ hState[h] = "live"
    /\ hState[o] = "live"
    /\ NotInUse(h)
    /\ NotBeingWritten(o)
    /\ self' = [self EXCEPT ![t] = h]
    /\ other' = [other EXCEPT ![t] = o]
    /\ Enter(t, "a_check")
    /\ UNCHANGED <<handleVars, blockVars, mutexVars, tmp, uaf, crashed>>

\* Faulty variant: operator= does not check for self-assignment.
NotSameObject_Unchecked(this, that) == TRUE

\* line 68: the condition of `if (this != &other)`
NotSameObject(this, that) == this # that

\* line 68: if (this != &other)
AssignCheck(t) ==
    /\ At(t, "a_check")
    /\ Goto(t, IF NotSameObject(self[t], other[t]) THEN "a_lock1" ELSE "a_ret")
    /\ UNCHANGED <<handleVars, blockVars, mutexVars, self, other, tmp, uaf, crashed>>

\* line 71: Mtx->lock();
AssignLockOld(t) ==
    /\ At(t, "a_lock1")
    /\ CanLock(t, Mtx[self[t]])
    /\ MtxLock(t, Mtx[self[t]])
    /\ Touch(Mtx[self[t]])
    /\ Goto(t, "a_load1")
    /\ UNCHANGED <<handleVars, blockVars, self, other, tmp, crashed>>

\* line 73: --*Counter (the load)
AssignLoadOld(t) ==
    /\ At(t, "a_load1")
    /\ tmp' = [tmp EXCEPT ![t] = Counter[Mtx[self[t]]]]
    /\ Touch(Mtx[self[t]])
    /\ Goto(t, "a_store1")
    /\ UNCHANGED <<handleVars, blockVars, mutexVars, self, other, crashed>>

\* line 73: --*Counter (the store)
AssignStoreOld(t) ==
    /\ At(t, "a_store1")
    /\ Counter' = [Counter EXCEPT ![Mtx[self[t]]] = Dec(tmp[t])]
    /\ tmp' = [tmp EXCEPT ![t] = 0]
    /\ Touch(Mtx[self[t]])
    /\ Goto(t, "a_test1")
    /\ UNCHANGED <<handleVars, alloc, IsValid, frees, mutexVars, self, other, crashed>>

\* Faulty variant: operator= frees the block while one handle is still counted.
AssignMustFree_OffByOne(c) == c <= 1

\* line 74: the condition of `if (*Counter == 0)`
AssignMustFree(c) == c = 0

\* lines 74-79: if (*Counter == 0) { delete Mtx; delete Counter; delete IsValid; }
AssignTestOld(t) ==
    /\ At(t, "a_test1")
    /\ Touch(Mtx[self[t]])
    /\ IF AssignMustFree(Counter[Mtx[self[t]]])
       THEN Delete(Mtx[self[t]])
       ELSE UNCHANGED <<alloc, frees>>
    /\ Goto(t, "a_unlock1")
    /\ UNCHANGED <<handleVars, Counter, IsValid, mutexVars, self, other, tmp, crashed>>

\* Faulty variant: operator= keeps the old block's mutex locked while it goes
\* on to lock the source's mutex.
AssignUnlockOld_KeepsLock(t) ==
    /\ At(t, "a_unlock1")
    /\ Touch(Mtx[self[t]])
    /\ Goto(t, "a_lock2")
    /\ UNCHANGED <<handleVars, blockVars, mutexVars, self, other, tmp, crashed>>

\* line 81: Mtx->unlock();
AssignUnlockOld(t) ==
    /\ At(t, "a_unlock1")
    /\ MtxUnlock(t, Mtx[self[t]])
    /\ Touch(Mtx[self[t]])
    /\ Goto(t, "a_lock2")
    /\ UNCHANGED <<handleVars, blockVars, self, other, tmp, crashed>>

\* Faulty variant: operator= goes on to link without locking the source's block.
AssignLockNew_NoLock(t) ==
    /\ At(t, "a_lock2")
    /\ Touch(Mtx[other[t]])
    /\ Goto(t, "a_link")
    /\ UNCHANGED <<handleVars, blockVars, mutexVars, self, other, tmp, crashed>>

\* line 84: other.Mtx->lock();
AssignLockNew(t) ==
    /\ At(t, "a_lock2")
    /\ CanLock(t, Mtx[other[t]])
    /\ MtxLock(t, Mtx[other[t]])
    /\ Touch(Mtx[other[t]])
    /\ Goto(t, "a_link")
    /\ UNCHANGED <<handleVars, blockVars, self, other, tmp, crashed>>

\* lines 86-88: Mtx = other.Mtx; Counter = other.Counter; IsValid = other.IsValid;
AssignLink(t) ==
    /\ At(t, "a_link")
    /\ Mtx' = [Mtx EXCEPT ![self[t]] = Mtx[other[t]]]
    /\ Goto(t, "a_load2")
    /\ UNCHANGED <<hState, IsOriginal, blockVars, mutexVars, self, other, tmp, uaf, crashed>>

\* line 90: ++*Counter (the load)
AssignLoadNew(t) ==
    /\ At(t, "a_load2")
    /\ tmp' = [tmp EXCEPT ![t] = Counter[Mtx[self[t]]]]
    /\ Touch(Mtx[self[t]])
    /\ Goto(t, "a_store2")
    /\ UNCHANGED <<handleVars, blockVars, mutexVars, self, other, crashed>>

\* Faulty variant: operator= does not execute IsOriginal = false.
AssignStoreNew_KeepsOriginal(t) ==
    /\ At(t, "a_store2")
    /\ Counter' = [Counter EXCEPT ![Mtx[self[t]]] = Inc(tmp[t])]
    /\ tmp' = [tmp EXCEPT ![t] = 0]
    /\ Touch(Mtx[self[t]])
    /\ Goto(t, "a_unlock2")
    /\ UNCHANGED <<handleVars, alloc, IsValid, frees, mutexVars, self, other, crashed>>

\* line 90: ++*Counter (the store); line 91: IsOriginal = false;
AssignStoreNew(t) ==
    /\ At(t, "a_store2")
    /\ Counter' = [Counter EXCEPT ![Mtx[self[t]]] = Inc(tmp[t])]
    /\ IsOriginal' = [IsOriginal EXCEPT ![self[t]] = FALSE]
    /\ tmp' = [tmp EXCEPT ![t] = 0]
    /\ Touch(Mtx[self[t]])
    /\ Goto(t, "a_unlock2")
    /\ UNCHANGED <<hState, Mtx, alloc, IsValid, frees, mutexVars, self, other, crashed>>

\* line 93: other.Mtx->unlock();
AssignUnlockNew(t) ==
    /\ At(t, "a_unlock2")
    /\ MtxUnlock(t, Mtx[other[t]])
    /\ Touch(Mtx[other[t]])
    /\ Goto(t, "a_ret")
    /\ UNCHANGED <<handleVars, blockVars, self, other, tmp, crashed>>

\* line 96: return *this;
AssignReturn(t) ==
    /\ At(t, "a_ret")
    /\ Return(t)
    /\ UNCHANGED <<handleVars, blockVars, mutexVars, tmp, uaf, crashed>>

----------------------------------------------------------------------------
\* Lock, TryLock, Unlock, GetIsValid  (lines 102-124)

\* Lock() is called on handle h; the thread then waits in Mtx->lock().
LockCall(t, h) ==
    /\ Call(t)
    /\ hState[h] = "live"
    /\ NotBeingWritten(h)
    /\ mtxOwner[Mtx[h]] = t => mtxCount[Mtx[h]] < MaxHold
    /\ other' = [other EXCEPT ![t] = h]
    /\ Enter(t, "l_lock")
    /\ UNCHANGED <<handleVars, blockVars, mutexVars, self, tmp, uaf, crashed>>

\* line 110: Mtx->lock();
LockAcquire(t) ==
    /\ At(t, "l_lock")
    /\ CanLock(t, Mtx[other[t]])
    /\ MtxLock(t, Mtx[other[t]])
    /\ Touch(Mtx[other[t]])
    /\ Return(t)
    /\ UNCHANGED <<handleVars, blockVars, tmp, crashed>>

\* line 117: return Mtx->try_lock();
TryLock(t, h) ==
    /\ Call(t)
    /\ hState[h] = "live"
    /\ NotBeingWritten(h)
    /\ mtxOwner[Mtx[h]] = t => mtxCount[Mtx[h]] < MaxHold
    /\ IF CanLock(t, Mtx[h])
       THEN /\ MtxLock(t, Mtx[h])
            /\ ret' = <<t, "TryLock", h, TRUE>>
       ELSE /\ UNCHANGED mutexVars
            /\ ret' = <<t, "TryLock", h, FALSE>>
    /\ Touch(Mtx[h])
    /\ UNCHANGED <<handleVars, blockVars, pc, self, other, tmp, crashed>>

\* line 123: Mtx->unlock();
Unlock(t, h) ==
    /\ Call(t)
    /\ hState[h] = "live"
    /\ NotBeingWritten(h)
    /\ mtxOwner[Mtx[h]] = t
    /\ MtxUnlock(t, Mtx[h])
    /\ Touch(Mtx[h])
    /\ ret' = NoRet
    /\ UNCHANGED <<handleVars, blockVars, pc, self, other, tmp, crashed>>

\* line 104: return *IsValid;
GetIsValid(t, h) ==
    /\ Call(t)
    /\ hState[h] = "live"
    /\ NotBeingWritten(h)
    /\ ret' = <<t, "GetIsValid", h, IsValid[Mtx[h]]>>
    /\ Touch(Mtx[h])
    /\ UNCHANGED <<handleVars, blockVars, mutexVars, pc, self, other, tmp, crashed>>

----------------------------------------------------------------------------
\* An access to freed memory is undefined behaviour: the statement either
\* runs on the stale memory (the steps above) or the process dies.

\* The block the next statement of thread t dereferences, 0 if none.
NextTouched(t) ==
    IF pc[t] \in {"c_lock", "c_unlock", "a_lock2", "a_unlock2", "l_lock"}
        THEN Mtx[other[t]]
    ELSE IF pc[t] \in {"c_load", "c_store", "a_lock1", "a_load1", "a_store1", "a_test1",
                       "a_unlock1", "a_load2", "a_store2", "d_lock", "d_load",
                       "d_store", "d_test", "d_unlock"}
        THEN Mtx[self[t]]
    ELSE IF pc[t] = "d_flag" /\ IsOriginal[self[t]]
        THEN Mtx[self[t]]
    ELSE 0

Crash(t) ==
    /\ ~crashed
    /\ NextTouched(t) # 0
    /\ alloc[NextTouched(t)] = "freed"
    /\ crashed' = TRUE
    /\ ret' = NoRet
    /\ UNCHANGED <<calls, prog>>
    /\ uaf' = uaf \cup {NextTouched(t)}
    /\ UNCHANGED <<handleVars, blockVars, mutexVars, pc, self, other, tmp>>

----------------------------------------------------------------------------

Next ==
    \E t \in Threads :
        \/ DefaultCtor(t)
        \/ \E o \in Handles : CopyCall(t, o)
        \/ CopyLock(t)
        \/ CopyLink(t)
        \/ CopyLoad(t)
        \/ CopyStore(t)
        \/ CopyUnlock(t)
        \/ \E h \in Handles : DtorCall(t, h)
        \/ DtorLock(t)
        \/ DtorFlag(t)
        \/ DtorLoad(t)
        \/ DtorStore(t)
        \/ DtorTest(t)
        \/ DtorUnlock(t)
        \/ \E h, o \in Handles : AssignCall(t, h, o)
        \/ AssignCheck(t)
        \/ AssignLockOld(t)
        \/ AssignLoadOld(t)
        \/ AssignStoreOld(t)
        \/ AssignTestOld(t)
        \/ AssignUnlockOld(t)
        \/ AssignLockNew(t)
        \/ AssignLink(t)
        \/ AssignLoadNew(t)
        \/ AssignStoreNew(t)
        \/ AssignUnlockNew(t)
        \/ AssignReturn(t)
        \/ \E h \in Handles : LockCall(t, h)
        \/ LockAcquire(t)
        \/ \E h \in Handles : TryLock(t, h)
        \/ \E h \in Handles : Unlock(t, h)
        \/ \E h \in Handles : GetIsValid(t, h)
        \/ Crash(t)

Spec == Init /\ [][Next]_vars

\* The next statement of the member function thread t is running. A thread
\* inside a member function keeps running: whether and when a client calls
\* a member function is up to the client, but once called, the function's
\* statements are executed by a fairly scheduled thread.
Step(t) ==
    \/ CopyLock(t) \/ CopyLink(t) \/ CopyLoad(t) \/ CopyStore(t) \/ CopyUnlock(t)
    \/ DtorLock(t) \/ DtorFlag(t) \/ DtorLoad(t) \/ DtorStore(t) \/ DtorTest(t)
    \/ DtorUnlock(t)
    \/ AssignCheck(t) \/ AssignLockOld(t) \/ AssignLoadOld(t) \/ AssignStoreOld(t)
    \/ AssignTestOld(t) \/ AssignUnlockOld(t) \/ AssignLockNew(t) \/ AssignLink(t)
    \/ AssignLoadNew(t) \/ AssignStoreNew(t) \/ AssignUnlockNew(t) \/ AssignReturn(t)
    \/ LockAcquire(t)

FairSpec == Spec /\ \A t \in Threads : WF_vars(Step(t))

----------------------------------------------------------------------------
\* main()  (lines 147-161)
\*
\* The main thread makes the ten member function calls of main() in program
\* order; prog is the number of the next one. The other thread stands for
\* code that shares the handles, as the class is meant to be used: it may
\* call Lock, TryLock, Unlock and GetIsValid at any time. The run of main()
\* on its own is the behaviours in which the other thread takes no step.

InitMain ==
    /\ hState = [h \in Handles |-> "unborn"]
    /\ Mtx = [h \in Handles |-> 0]
    /\ IsOriginal = [h \in Handles |-> FALSE]
    /\ alloc = [b \in Blocks |-> "unalloc"]
    /\ Counter = [b \in Blocks |-> 0]
    /\ IsValid = [b \in Blocks |-> FALSE]
    /\ mtxOwner = [b \in Blocks |-> NoThread]
    /\ mtxCount = [b \in Blocks |-> 0]
    /\ pc = [t \in Threads |-> "idle"]
    /\ self = [t \in Threads |-> 0]
    /\ other = [t \in Threads |-> 0]
    /\ tmp = [t \in Threads |-> 0]
    /\ ret = NoRet
    /\ frees = [b \in Blocks |-> 0]
    /\ uaf = {}
    /\ crashed = FALSE
    /\ calls = 0
    /\ prog = 1

\* The next member function call of main().
MainCall ==
    \/ prog = 1 /\ DefaultCtor(MainThread)            \* line 149: new MutexValidator
    \/ prog = 2 /\ CopyCall(MainThread, mwvp)         \* line 150: mwv(*mwvp)
    \/ prog \in {3, 7} /\ LockCall(MainThread, mwv)   \* lines 152, 158: mwv.Lock()
    \/ prog \in {4, 8} /\ GetIsValid(MainThread, mwv) \* lines 153, 159: mwv.GetIsValid()
    \/ prog \in {5, 9} /\ Unlock(MainThread, mwv)     \* lines 154, 160: mwv.Unlock()
    \/ prog = 6 /\ DtorCall(MainThread, mwvp)         \* line 156: delete mwvp
    \/ prog = 10 /\ DtorCall(MainThread, mwv)         \* line 161: mwv leaves scope

\* A call of the thread that shares the handles with main().
SharerCall ==
    \E t \in Threads \ {MainThread}, h \in Handles :
        \/ LockCall(t, h)
        \/ TryLock(t, h)
        \/ Unlock(t, h)
        \/ GetIsValid(t, h)

NextMain ==
    \/ MainCall
    \/ SharerCall
    \/ \E t \in Threads :
          \/ CopyLock(t)
          \/ CopyLink(t)
          \/ CopyLoad(t)
          \/ CopyStore(t)
          \/ CopyUnlock(t)
          \/ DtorLock(t)
          \/ DtorFlag(t)
          \/ DtorLoad(t)
          \/ DtorStore(t)
          \/ DtorTest(t)
          \/ DtorUnlock(t)
          \/ LockAcquire(t)
          \/ Crash(t)

SpecMain == InitMain /\ [][NextMain]_vars

----------------------------------------------------------------------------
\* Two threads assign in opposite directions between two blocks.
\*
\*     MutexValidator x;  MutexValidator x2(x);      // block 1, handles 1 and 2
\*     MutexValidator y;  MutexValidator y2(y);      // block 2, handles 3 and 4
\*     thread t1:  (x or x2) = (y or y2);
\*     thread t2:  (y or y2) = (x or x2);

CrossHandles == 1..4

\* The block whose handle thread t re-links, and the block it re-links it to.
Home(t) == IF t = "t1" THEN 1 ELSE 2

Away(t) == IF t = "t1" THEN 2 ELSE 1

\* The handles constructed on block b.
Built(b) == IF b = 1 THEN {1, 2} ELSE {3, 4}

\* The state after the four constructions (lines 38-45 and 49-61, twice each).
InitCross ==
    /\ hState = [h \in CrossHandles |-> "live"]
    /\ Mtx = [h \in CrossHandles |-> IF h \in Built(1) THEN 1 ELSE 2]
    /\ IsOriginal = [h \in CrossHandles |-> h \in {1, 3}]
    /\ alloc = [b \in Blocks |-> IF b \in {1, 2} THEN "live" ELSE "unalloc"]
    /\ Counter = [b \in Blocks |-> IF b \in {1, 2} THEN 2 ELSE 0]
    /\ IsValid = [b \in Blocks |-> b \in {1, 2}]
    /\ mtxOwner = [b \in Blocks |-> NoThread]
    /\ mtxCount = [b \in Blocks |-> 0]
    /\ pc = [t \in Threads |-> "idle"]
    /\ self = [t \in Threads |-> 0]
    /\ other = [t \in Threads |-> 0]
    /\ tmp = [t \in Threads |-> 0]
    /\ ret = NoRet
    /\ frees = [b \in Blocks |-> 0]
    /\ uaf = {}
    /\ crashed = FALSE
    /\ calls = 0
    /\ prog = 0

\* Thread t assigns to a handle of its home block from a handle of the other
\* block; both handles of the home block still point to it, so the block
\* keeps a handle.
CrossAssign(t) ==
    \E h \in Built(Home(t)), o \in Built(Away(t)) :
        /\ \A g \in Built(Home(t)) : Mtx[g] = Home(t)
        /\ Mtx[o] = Away(t)
        /\ AssignCall(t, h, o)

NextCross ==
    \E t \in Threads :
        \/ CrossAssign(t)
        \/ AssignCheck(t)
        \/ AssignLockOld(t)
        \/ AssignLoadOld(t)
        \/ AssignStoreOld(t)
        \/ AssignTestOld(t)
        \/ AssignUnlockOld(t)
        \/ AssignLockNew(t)
        \/ AssignLink(t)
        \/ AssignLoadNew(t)
        \/ AssignStoreNew(t)
        \/ AssignUnlockNew(t)
        \/ AssignReturn(t)

SpecCross == InitCross /\ [][NextCross]_vars

FairSpecCross == SpecCross /\ \A t \in Threads : WF_vars(Step(t))

----------------------------------------------------------------------------
\* Vocabulary of the properties

OpInProgress == \E t \in Threads : pc[t] # "idle"

\* The handles that exist (constructed or under construction, not destroyed)
\* and point to block b.
HandlesOn(b) == {h \in Handles : hState[h] \in {"live", "constructing"} /\ Mtx[h] = b}

LiveHandlesOn(b) == {h \in Handles : hState[h] = "live" /\ Mtx[h] = b}

\* The statements of one operation.
CopyLabels == {"c_lock", "c_link", "c_load", "c_store", "c_unlock"}

DtorLabels == {"d_lock", "d_flag", "d_load", "d_store", "d_test", "d_unlock"}

AssignLabels == {"a_check", "a_lock1", "a_load1", "a_store1", "a_test1", "a_unlock1",
                 "a_lock2", "a_link", "a_load2", "a_store2", "a_unlock2", "a_ret"}

----------------------------------------------------------------------------
\* C1: the delete statements never run twice on a block, and once no handle
\* that exists points to a block any more (the original and all its copies
\* are destroyed, in whatever order and interleaving), they have run on it
\* exactly once.
C1_FreedExactlyOnce ==
    \A b \in Blocks :
        /\ frees[b] <= 1
        /\ (alloc[b] # "unalloc" /\ HandlesOn(b) = {} /\ ~OpInProgress) => frees[b] = 1

\* An original and two copies of it, all three destroyed, the block freed once.
C1_Witness ==
    /\ \A h \in Handles : hState[h] = "dead" /\ Mtx[h] = 1
    /\ Cardinality({h \in Handles : IsOriginal[h]}) = 1
    /\ frees[1] = 1
    /\ ~OpInProgress

----------------------------------------------------------------------------
\* C2: no statement accesses a field of a block after the delete statements
\* ran on it.
C2_NoAccessAfterFree == uaf = {}

----------------------------------------------------------------------------
\* The original handle of block b has been destroyed.
OriginalDestroyed(b) == \E o \in Handles : hState[o] = "dead" /\ IsOriginal[o] /\ Mtx[o] = b

\* The handles of block b that exist and that no constructor, assignment or
\* destructor is running on.
Surviving(b) == {h \in LiveHandlesOn(b) : NotBeingWritten(h)}

\* C3: the destructor of an original handle clears the flag before it
\* decrements the counter; and while handles of the block survive the
\* destroyed original, the block is not freed, its flag is false, and
\* GetIsValid called on a surviving handle returns false.
C3_OriginalDestroyedFirst ==
    /\ \A t \in Threads :
          (pc[t] \in {"d_load", "d_store", "d_test", "d_unlock"} /\ IsOriginal[self[t]])
              => ~IsValid[Mtx[self[t]]]
    /\ \A b \in Blocks :
          (OriginalDestroyed(b) /\ Surviving(b) # {}) =>
              /\ alloc[b] = "live"
              /\ ~IsValid[b]
              /\ \A t \in Threads, h \in Surviving(b) :
                    ret # <<t, "GetIsValid", h, TRUE>>

\* A thread that locked a surviving copy has just read false through it.
C3_Witness ==
    \E t \in Threads, h \in Handles :
        /\ ret = <<t, "GetIsValid", h, FALSE>>
        /\ hState[h] = "live"
        /\ ~IsOriginal[h]
        /\ OriginalDestroyed(Mtx[h])
        /\ alloc[Mtx[h]] = "live"
        /\ mtxOwner[Mtx[h]] = t

----------------------------------------------------------------------------
\* The flag of a block never goes from false to true, and the only step
\* that takes it from true to false is lines 131-132 of the destructor run on
\* a handle whose IsOriginal is true; no step of the destructor of another
\* handle and no step of an assignment changes it.
C4_FlagStep ==
    \A b \in Blocks :
        alloc[b] # "unalloc" =>
            /\ ~IsValid[b] => ~IsValid'[b]
            /\ (IsValid[b] /\ ~IsValid'[b]) =>
                  \E t \in Threads :
                      /\ pc[t] = "d_flag"
                      /\ pc'[t] = "d_load"
                      /\ Mtx[self[t]] = b
                      /\ IsOriginal[self[t]]

\* C4: every step leaves the flags alone or is the clearing of the flag by
\* the destructor of an original handle.
C4_FlagOnlyClearedByOriginal == [][C4_FlagStep]_vars

\* A copy has been destroyed and a former copy re-linked; the flags are still true.
C4_Witness ==
    \E c, d \in Handles :
        /\ hState[c] = "dead" /\ ~IsOriginal[c] /\ IsValid[Mtx[c]]
        /\ \E t \in Threads : pc[t] = "a_ret" /\ self[t] = d /\ other[t] # d
        /\ \A b \in Blocks : alloc[b] = "live" => IsValid[b]

----------------------------------------------------------------------------
\* C5: when operator= releases the block of an original handle, the flag of
\* that block has been set to false by the time the decremented counter is
\* stored.
C5_AssignInvalidatesFirst ==
    \A t \in Threads :
        (pc[t] \in {"a_test1", "a_unlock1"} /\ IsOriginal[self[t]])
            => ~IsValid[Mtx[self[t]]]

----------------------------------------------------------------------------
\* C6: when no constructor, assignment or destructor is in progress, the
\* counter of every allocated block is the number of live handles that point
\* to it, and is at least 1.
C6_RefCountMatches ==
    ~OpInProgress =>
        \A b \in Blocks :
            alloc[b] = "live" =>
                /\ Counter[b] = Cardinality(LiveHandlesOn(b))
                /\ Counter[b] >= 1

\* Two blocks, one with two handles after a copy, one handle destroyed.
C6_Witness ==
    /\ ~OpInProgress
    /\ \E b \in Blocks : alloc[b] = "live" /\ Counter[b] = 2
    /\ \E h \in Handles : hState[h] = "dead"

----------------------------------------------------------------------------
\* C7: while only copy constructors run, the counter of a block is the number
\* of its constructed handles plus the number of copy constructors that have
\* executed their ++*Counter: no increment of concurrent copies is lost, and
\* when all of them have returned the counter has grown by their number.
C7_NoLostIncrement ==
    (\A t \in Threads : pc[t] \in {"idle"} \cup CopyLabels) =>
        \A b \in Blocks :
            alloc[b] = "live" =>
                Counter[b] = Cardinality(LiveHandlesOn(b))
                             + Cardinality({t \in Threads : pc[t] = "c_unlock" /\ Mtx[self[t]] = b})

\* Two threads copy from the same handle at the same time: one has
\* incremented the counter, the other waits for the mutex.
C7_Witness ==
    \E t, u \in Threads :
        /\ pc[t] = "c_unlock"
        /\ pc[u] = "c_lock"
        /\ other[t] = other[u]
        /\ Counter[Mtx[other[t]]] = 2

----------------------------------------------------------------------------
\* The statements that write *Counter or *IsValid of an existing block, with
\* the load that belongs to the write.
WritesBlock(t) ==
    \/ pc[t] \in {"c_load", "c_store", "d_load", "d_store",
                  "a_load1", "a_store1", "a_load2", "a_store2"}
    \/ pc[t] = "d_flag" /\ IsOriginal[self[t]]

\* C8: a thread that is about to write the counter or the flag of a block
\* owns the mutex of that block, so two threads are never inside the
\* read-modify-write of the same block.
C8_WritesUnderMutex ==
    /\ \A t \in Threads :
          WritesBlock(t) =>
              /\ mtxOwner[Mtx[self[t]]] = t
              /\ mtxCount[Mtx[self[t]]] >= 1
    /\ \A t, u \in Threads :
          (t # u /\ WritesBlock(t) /\ WritesBlock(u)) => Mtx[self[t]] # Mtx[self[u]]

\* One thread is between the load and the store of ++*Counter while another
\* waits in the destructor for the mutex of the same block.
C8_Witness ==
    \E t, u \in Threads :
        /\ pc[t] = "c_store"
        /\ pc[u] = "d_lock"
        /\ Mtx[self[u]] = Mtx[self[t]]
        /\ ~CanLock(u, Mtx[self[u]])

----------------------------------------------------------------------------
\* Thread t holds the mutex of block b inside a constructor, an assignment
\* or a destructor (between its lock() and its unlock()).
InternalHold(t, b) ==
    IF \/ pc[t] \in {"c_link", "c_load", "c_store", "c_unlock",
                     "a_link", "a_load2", "a_store2", "a_unlock2"} /\ Mtx[other[t]] = b
       \/ pc[t] \in {"d_flag", "d_load", "d_store", "d_test", "d_unlock",
                     "a_load1", "a_store1", "a_test1", "a_unlock1"} /\ Mtx[self[t]] = b
    THEN 1 ELSE 0

\* Thread t is inside a Lock()..Unlock() section on block b.
InSection(t, b) == mtxOwner[b] = t /\ mtxCount[b] > InternalHold(t, b)

\* C9 as stated: while a thread is inside a Lock()..Unlock() section of a
\* block whose flag is true, the flag stays true.
C9_FlagStableInSection ==
    [][\A t \in Threads, b \in Blocks :
          (alloc[b] = "live" /\ InSection(t, b) /\ IsValid[b]) => IsValid'[b]]_vars

\* While a thread is inside a Lock()..Unlock() section of a
\* block whose flag is true, the original handle of the block has not been
\* destroyed, and no other thread clears the flag: the only step that can
\* clear it is the destructor the thread itself runs on the original handle.
C9_Step ==
    \A t \in Threads, b \in Blocks :
        (alloc[b] = "live" /\ InSection(t, b) /\ IsValid[b]) =>
            /\ ~OriginalDestroyed(b)
            /\ \A u \in Threads \ {t} : ~(pc[u] \in DtorLabels \ {"d_lock"} /\ Mtx[self[u]] = b)
            /\ ~IsValid'[b] => (pc[t] = "d_flag" /\ pc'[t] = "d_load" /\ Mtx[self[t]] = b)

\* C9 as amended: inside a Lock()..Unlock() section of a block whose flag is
\* true, the original has not been destroyed and no thread other than the
\* holder clears the flag.
C9_OnlyHolderClearsFlag == [][C9_Step]_vars

\* A thread has read true inside its section while another thread waits in
\* the destructor of the original handle.
C9_Witness ==
    \E t, u \in Threads, h \in Handles :
        /\ ret = <<t, "GetIsValid", h, TRUE>>
        /\ InSection(t, Mtx[h])
        /\ pc[u] = "d_lock"
        /\ IsOriginal[self[u]]
        /\ Mtx[self[u]] = Mtx[h]

----------------------------------------------------------------------------
\* No step of a self-assignment changes a counter, a flag, an
\* IsOriginal member, a pointer or a mutex, and none frees a block.
C10_Step ==
    \A t \in Threads :
        (pc[t] \in AssignLabels /\ self[t] = other[t] /\ pc'[t] # pc[t]) =>
            /\ Counter' = Counter
            /\ IsValid' = IsValid
            /\ IsOriginal' = IsOriginal
            /\ Mtx' = Mtx
            /\ alloc' = alloc
            /\ frees' = frees
            /\ mtxOwner' = mtxOwner
            /\ mtxCount' = mtxCount

\* C10: self-assignment (h = h) leaves every counter, flag and IsOriginal
\* member unchanged and frees nothing, also when h is the only handle of
\* its block.
C10_SelfAssignNoOp == [][C10_Step]_vars

\* The only handle of a block, an original, has been assigned to itself.
C10_Witness ==
    \E t \in Threads :
        /\ pc[t] = "a_ret"
        /\ self[t] = other[t]
        /\ IsOriginal[self[t]]
        /\ Counter[Mtx[self[t]]] = 1
        /\ IsValid[Mtx[self[t]]]
        /\ alloc[Mtx[self[t]]] = "live"

----------------------------------------------------------------------------
\* A step of the copy constructor or of operator= run by thread t leaves the
\* handle it copies from as it was: same pointers, same IsOriginal, still
\* constructed; it leaves the block of that handle allocated and its flag
\* unchanged; and the only block it can free is the one the assignment
\* target pointed to.
C11_Step ==
    \A t \in Threads :
        (pc[t] \in CopyLabels \cup AssignLabels /\ self[t] # other[t] /\ pc'[t] # pc[t]) =>
            LET o == other[t] IN
            /\ Mtx'[o] = Mtx[o]
            /\ IsOriginal'[o] = IsOriginal[o]
            /\ hState[o] = "live" /\ hState'[o] = "live"
            /\ alloc[Mtx[o]] = "live" /\ alloc'[Mtx[o]] = "live"
            /\ IsValid'[Mtx[o]] = IsValid[Mtx[o]]
            /\ \A b \in Blocks :
                  alloc'[b] # alloc[b] => (pc[t] = "a_test1" /\ b = Mtx[self[t]])

\* C11: copy construction from, and copy assignment from, a handle S never
\* changes S, frees S's block or changes its flag; only the previous block of
\* the assignment target can be released.
C11_SourceUntouched == [][C11_Step]_vars

\* An assignment from an original handle has freed the target's old block
\* and linked the target to the source's block.
C11_Witness ==
    \E t \in Threads :
        /\ pc[t] = "a_ret"
        /\ self[t] # other[t]
        /\ Mtx[self[t]] = Mtx[other[t]]
        /\ IsOriginal[other[t]]
        /\ hState[other[t]] = "live"
        /\ Counter[Mtx[other[t]]] = 2
        /\ \E b \in Blocks : alloc[b] = "freed" /\ frees[b] = 1

----------------------------------------------------------------------------
\* A step in which thread t receives the result v of TryLock on handle h is
\* a single step that returns to the caller; v is FALSE exactly when another
\* thread owns the mutex, and then owner and hold count of every mutex are
\* unchanged; otherwise v is TRUE and the caller owns the mutex with one
\* more hold.
C12_Step ==
    \A t \in Threads, h \in Handles, v \in BOOLEAN :
        ret' = <<t, "TryLock", h, v>> =>
            LET b == Mtx[h] IN
            /\ pc[t] = "idle" /\ pc'[t] = "idle"
            /\ IF mtxOwner[b] \notin {NoThread, t}
               THEN /\ v = FALSE
                    /\ mtxOwner' = mtxOwner
                    /\ mtxCount' = mtxCount
               ELSE /\ v = TRUE
                    /\ mtxOwner'[b] = t
                    /\ mtxCount'[b] = mtxCount[b] + 1

\* C12: TryLock never blocks; it returns false and leaves owner and hold
\* count unchanged when another thread holds the mutex, and returns true with
\* the caller holding the mutex when it was unlocked.
C12_TryLockNeverBlocks == [][C12_Step]_vars

\* TryLock has just failed because the other thread holds the mutex.
C12_Witness ==
    \E t \in Threads, h \in Handles :
        /\ ret = <<t, "TryLock", h, FALSE>>
        /\ mtxOwner[Mtx[h]] \notin {NoThread, t}
        /\ mtxCount[Mtx[h]] >= 1
        /\ pc[t] = "idle"

----------------------------------------------------------------------------
\* The handles whose operator= has already executed --*Counter on block b
\* (line 73) and has not yet re-linked them (lines 86-88).
ReleasedFrom(b) ==
    {h \in Handles : /\ Mtx[h] = b
                     /\ \E u \in Threads : /\ self[u] = h
                                           /\ pc[u] \in {"a_test1", "a_unlock1", "a_lock2", "a_link"}}

\* C14: when operator= has finished releasing the target's old block (it is
\* about to unlock it, line 81): if no other live handle points to that
\* block, the block has been freed, exactly once; otherwise the block is
\* still allocated, has never been freed, and its counter is the number of
\* those other handles, one less than before.
C14_AssignReleasesOldBlock ==
    \A t \in Threads :
        pc[t] = "a_unlock1" =>
            LET b == Mtx[self[t]]
                Others == LiveHandlesOn(b) \ ReleasedFrom(b)
            IN  IF Others = {}
                THEN alloc[b] = "freed" /\ frees[b] = 1 /\ Counter[b] = 0
                ELSE alloc[b] = "live" /\ frees[b] = 0 /\ Counter[b] = Cardinality(Others)

\* An assignment has moved the last handle away from its block and freed it,
\* while the source's block has two other handles.
C14_Witness ==
    \E t \in Threads :
        /\ pc[t] = "a_unlock1"
        /\ alloc[Mtx[self[t]]] = "freed"
        /\ frees[Mtx[self[t]]] = 1
        /\ Mtx[other[t]] # Mtx[self[t]]
        /\ Counter[Mtx[other[t]]] = 2

----------------------------------------------------------------------------
\* The statements of operator= that release the target's old block
\* (lines 73-81) and those that link the target to the source's block
\* (lines 86-93).
AssignReleaseLabels == {"a_load1", "a_store1", "a_test1", "a_unlock1"}

AssignLinkLabels == {"a_link", "a_load2", "a_store2", "a_unlock2"}

\* The documented step order: operator= holds the lock of the source's block
\* while it releases the target's old block.
C15_SourceLockedDuringRelease ==
    \A t \in Threads :
        pc[t] \in AssignReleaseLabels => mtxOwner[Mtx[other[t]]] = t

\* C15: the order of operator= in the code: it releases the target's old
\* block holding that block's own lock, unlocks it, and only then locks the
\* source's block, under which it links and increments; from the release of
\* the old block to the increment the source handle stays constructed and
\* counted, so the source's block stays allocated with a counter of at
\* least 1.
C15_AssignStepOrder ==
    \A t \in Threads :
        LET h == self[t]
            o == other[t]
        IN  /\ pc[t] \in AssignReleaseLabels => mtxOwner[Mtx[h]] = t
            /\ pc[t] \in AssignLinkLabels =>
                   /\ mtxOwner[Mtx[o]] = t
                   /\ mtxCount[Mtx[o]] >= 1
            /\ pc[t] \in {"a_load2", "a_store2", "a_unlock2"} => Mtx[h] = Mtx[o]
            /\ pc[t] \in AssignReleaseLabels \cup {"a_lock2"} \cup AssignLinkLabels =>
                   /\ hState[o] = "live"
                   /\ alloc[Mtx[o]] = "live"
                   /\ Counter[Mtx[o]] >= 1

\* operator= is releasing the target's old block while the other thread
\* holds the lock of the source's block.
C15_Witness ==
    \E t \in Threads, u \in Threads :
        /\ pc[t] \in AssignReleaseLabels
        /\ Mtx[self[t]] # Mtx[other[t]]
        /\ mtxOwner[Mtx[self[t]]] = t
        /\ u # t
        /\ mtxOwner[Mtx[other[t]]] = u

----------------------------------------------------------------------------
\* The hold count of a recursive mutex: every step changes it by at most one,
\* the owner changes only when the count goes from 0 to 1 or from 1 to 0, and
\* TryLock by the owner succeeds.
C16_Step ==
    /\ \A b \in Blocks :
          /\ mtxCount'[b] \in {mtxCount[b] - 1, mtxCount[b], mtxCount[b] + 1}
          /\ mtxOwner'[b] # mtxOwner[b] =>
                \/ mtxOwner[b] = NoThread /\ mtxCount[b] = 0 /\ mtxCount'[b] = 1
                \/ mtxOwner'[b] = NoThread /\ mtxCount[b] = 1 /\ mtxCount'[b] = 0
          /\ (mtxCount[b] = 0) <=> (mtxOwner[b] = NoThread)
    /\ \A t \in Threads, h \in Handles :
          ((\E v \in BOOLEAN : ret' = <<t, "TryLock", h, v>>) /\ mtxOwner[Mtx[h]] = t) =>
              /\ ret' = <<t, "TryLock", h, TRUE>>
              /\ mtxCount'[Mtx[h]] = mtxCount[Mtx[h]] + 1
    /\ \A t \in Threads :
          /\ (pc[t] = "l_lock" /\ mtxOwner[Mtx[other[t]]] = t) => ENABLED LockAcquire(t)
          /\ (pc[t] = "c_lock" /\ mtxOwner[Mtx[other[t]]] = t) => ENABLED CopyLock(t)
          /\ (pc[t] = "d_lock" /\ mtxOwner[Mtx[self[t]]] = t) => ENABLED DtorLock(t)

\* C16: the mutex of a block is re-entrant: the thread that holds it is not
\* blocked in Lock(), TryLock(), the copy constructor or the destructor on
\* that block, and the mutex passes to no other thread before its hold count,
\* raised by one per acquisition and lowered by one per Unlock(), is back
\* at 0.
C16_Reentrant == [][C16_Step]_vars

\* A copy constructor runs inside a doubly nested Lock() section of its own
\* thread: three holds of the same mutex.
C16_Witness ==
    \E t \in Threads :
        /\ pc[t] = "c_link"
        /\ mtxOwner[Mtx[other[t]]] = t
        /\ mtxCount[Mtx[other[t]]] = 3

----------------------------------------------------------------------------
\* The constructed handles that point to block b and carry IsOriginal.
OriginalsOn(b) == {h \in Handles : hState[h] = "live" /\ Mtx[h] = b /\ IsOriginal[h]}

\* Handle h is the target of an operator= that has executed lines 86-88
\* (the re-link) and not yet line 91 (IsOriginal = false).
MidAssign(h) ==
    \E t \in Threads : self[t] = h /\ pc[t] \in {"a_load2", "a_store2"}

\* The statement as written: in every reachable state a block has at most
\* one constructed handle with IsOriginal true.
C18_AtMostOneOriginalAlways ==
    \A b \in Blocks : Cardinality(OriginalsOn(b)) <= 1

\* Outside lines 86-91 of an assignment to it, at most one constructed handle
\* of a block carries IsOriginal; IsOriginal becomes true only in the default
\* constructor, for a new handle on the block allocated by that call; and a
\* handle that carries IsOriginal is re-linked only by line 86 of operator=,
\* which clears the mark at line 91 before it returns.
C18_Step ==
    /\ \A b \in Blocks :
          Cardinality({h \in OriginalsOn(b) : ~MidAssign(h)}) <= 1
    /\ \A h \in Handles :
          /\ (IsOriginal'[h] /\ ~IsOriginal[h]) =>
                /\ hState[h] = "unborn" /\ hState'[h] = "live"
                /\ alloc[Mtx'[h]] = "unalloc" /\ alloc'[Mtx'[h]] = "live"
          /\ (IsOriginal[h] /\ Mtx'[h] # Mtx[h]) =>
                \E t \in Threads : self[t] = h /\ pc[t] = "a_link" /\ pc'[t] = "a_load2"
    /\ \A t \in Threads :
          (pc[t] \in {"c_unlock", "a_unlock2", "a_ret"} /\ self[t] # other[t]) =>
              ~IsOriginal[self[t]]

\* C18: except between the re-link and the clearing of IsOriginal inside an
\* assignment to an original handle, each block has at most one constructed
\* handle with IsOriginal true, the one whose default construction allocated
\* the block; no copy construction or assignment sets IsOriginal to true, and
\* none leaves the mark on a handle it has re-linked.
C18_AtMostOneOriginal == [][C18_Step]_vars

\* An original handle has been assigned from a copy of another block whose
\* original is still constructed, and the assignment has returned.
C18_Witness ==
    \E h \in Handles, g \in Handles :
        /\ ~OpInProgress
        /\ h # g
        /\ hState[h] = "live" /\ hState[g] = "live"
        /\ Mtx[h] = Mtx[g]
        /\ IsOriginal[g] /\ ~IsOriginal[h]
        /\ \E b \in Blocks : b # Mtx[h] /\ alloc[b] = "live" /\ IsValid[b] /\ LiveHandlesOn(b) # {}

----------------------------------------------------------------------------
\* C19: when no operation is in progress, the flag of an allocated block is
\* true if and only if a constructed handle with IsOriginal true points to
\* the block.
C19_FlagIffOriginalPresent ==
    ~OpInProgress =>
        \A b \in Blocks :
            alloc[b] = "live" => (IsValid[b] <=> OriginalsOn(b) # {})

----------------------------------------------------------------------------
\* The statements at which a member function waits for a mutex.
LockLabels == {"c_lock", "d_lock", "a_lock1", "a_lock2", "l_lock"}

\* Every Lock()/TryLock() section is eventually left again.
SectionsEnd ==
    \A u \in Threads, b \in Blocks : []<>(~InSection(u, b))

\* C17: under fair scheduling, if every thread that holds a mutex through
\* Lock() or TryLock() eventually unlocks it, every copy construction,
\* assignment, destruction and Lock() that has reached its lock statement
\* eventually returns.
C17_WaitersComplete ==
    SectionsEnd => \A t \in Threads : (pc[t] \in LockLabels) ~> (pc[t] = "idle")

----------------------------------------------------------------------------
\* Thread t holds no mutex when it is about to wait for one, and never holds
\* the mutexes of two blocks.
NoHoldAndWait ==
    \A t \in Threads :
        /\ pc[t] \in {"a_lock1", "a_lock2"} => \A b \in Blocks : mtxOwner[b] # t
        /\ \A b, c \in Blocks : (mtxOwner[b] = t /\ mtxOwner[c] = t) => b = c

\* C20: operator= never waits for the mutex of one block while it holds the
\* mutex of another, and two threads that assign in opposite directions
\* between two blocks, each of which keeps another handle, both return.
C20_CrossAssignmentsComplete ==
    /\ []NoHoldAndWait
    /\ \A t \in Threads : (pc[t] # "idle") ~> (pc[t] = "idle")

\* Both opposite assignments have returned: a handle built on block 1 now
\* points to block 2 and a handle built on block 2 now points to block 1.
C20_Witness ==
    /\ \A t \in Threads : pc[t] = "idle"
    /\ \E h \in Built(1) : Mtx[h] = 2
    /\ \E h \in Built(2) : Mtx[h] = 1
    /\ Counter[1] = 2 /\ Counter[2] = 2
    /\ alloc[1] = "live" /\ alloc[2] = "live"

----------------------------------------------------------------------------
\* The main thread is between two calls of main().
MainIdle == pc[MainThread] = "idle"

\* C13: the run of main(): after `new MutexValidator` the counter is 1 and
\* the flag true; after the copy the counter is 2; inside the first
\* Lock/Unlock GetIsValid returns true; after `delete mwvp` the flag is false,
\* the counter 1 and the block still allocated; inside the second
\* Lock/Unlock GetIsValid returns false; when mwv is destroyed the counter
\* is 0 and the block has been freed, once.
C13_DemoSequence ==
    /\ (prog = 2 /\ MainIdle) =>
          /\ alloc[1] = "live" /\ Counter[1] = 1 /\ IsValid[1]
          /\ hState[mwvp] = "live" /\ IsOriginal[mwvp]
    /\ (prog \in 3..6 /\ MainIdle) =>
          /\ alloc[1] = "live" /\ Counter[1] = 2 /\ IsValid[1]
          /\ hState[mwv] = "live" /\ ~IsOriginal[mwv] /\ Mtx[mwv] = Mtx[mwvp]
    /\ ((prog \in {4, 8} /\ MainIdle) \/ prog \in {5, 9}) => mtxOwner[1] = MainThread
    /\ \A v \in BOOLEAN :
          ret = <<MainThread, "GetIsValid", mwv, v>> =>
              /\ prog \in {5, 9}
              /\ prog = 5 => v = TRUE
              /\ prog = 9 => v = FALSE
    /\ (prog \in 7..10 /\ MainIdle) =>
          /\ hState[mwvp] = "dead"
          /\ alloc[1] = "live" /\ frees[1] = 0
          /\ Counter[1] = 1 /\ ~IsValid[1]
    /\ (prog = 11 /\ pc[MainThread] \in {"d_unlock", "idle"}) =>
          /\ Counter[1] = 0
          /\ alloc[1] = "freed" /\ frees[1] = 1

\* main() has returned: both objects are destroyed and the block was freed.
C13_Witness ==
    /\ prog = 11
    /\ MainIdle
    /\ hState[mwvp] = "dead" /\ hState[mwv] = "dead"
    /\ alloc[1] = "freed" /\ frees[1] = 1

====
